---- MODULE Spec2Model ----
(***************************************************************************)
(* Model of cssSelectorBuilder (src/src/05-objects-tasks.js, lines 116-204) *)
(*                                                                         *)
(* A selector object is a record [hasRes, res]: hasRes tells whether the   *)
(* JavaScript object owns a `res` property (the facade does not, so its    *)
(* `this.res` is undefined), res is the array of fragments {type, value}.  *)
(* The program under analysis is any client that holds the facade and two  *)
(* variables s and t, and runs statements `target = this.method(...)` on   *)
(* them: the method runs (pc becomes "called"), then its result, if any,   *)
(* is assigned (pc becomes "idle" again).                                  *)
(***************************************************************************)
EXTENDS Integers, Sequences, FiniteSets, TLC

VARIABLES
  heap,   \* the object each name refers to: the facade and the client's variables
  pc,     \* "idle" between statements, "called" when a method has just run
  last,   \* the call just made and its outcome, while pc = "called"
  chain   \* history: the object was built from the facade by append calls only

vars == <<heap, pc, last, chain>>

(* ---- bounds of the model ---- *)
\* most fragments the client's variables hold together
MaxLen == 3

\* fragment texts the client passes to the append operations
Texts == {"a"}
\* tokens the client passes to combine: two CSS combinators, and one that is none
\* and is spelled like a fragment text
Combinators == {"+", " ", "a"}

\* the client's variables, and everything a method may be called on
Slots == {"s", "t"}
Objs == {"facade"} \cup Slots

(* ---- the source's constants ---- *)
TWICE_ERROR == "Element, id and pseudo-element should not occur more then one time inside the selector"
NOT_SO_ERROR == "Selector parts should be arranged in the following order: element, id, class, attribute, pseudo-class, pseudo-element"
\* no exception thrown
NoError == ""

\* the facade object literal: it has methods only, no `res` property
cssSelectorBuilder == [hasRes |-> FALSE, res |-> <<>>]

\* `{ type, value }`
Fragment(type, value) == [type |-> type, value |-> value]

\* `this.res || []`
ResOrEmpty(this) == IF this.hasRes THEN this.res ELSE <<>>

\* `arr.filter((val) => val.type === type).length`
FilterLength(arr, type) == Cardinality({i \in DOMAIN arr : arr[i].type = type})

\* `const order = [...]` of throwErrorIfNotSorted
order == <<"element", "id", "class", "attribute", "pseudo-class", "pseudo-element">>

\* Array.prototype.indexOf, 0-based, -1 when absent
indexOf(arr, x) ==
  IF \E i \in DOMAIN arr : arr[i] = x
  THEN (CHOOSE i \in DOMAIN arr : arr[i] = x /\ \A j \in DOMAIN arr : arr[j] = x => i <= j) - 1
  ELSE -1

\* mutant: combinator fragments are left out of the scan
isSorted_SkipCombinators(arr) ==
  \A index \in DOMAIN arr :
    \/ index = 1
    \/ arr[index - 1].type = "combinator"
    \/ arr[index].type = "combinator"
    \/ indexOf(order, arr[index - 1].type) <= indexOf(order, arr[index].type)

\* mutant: `<` in place of `<=`
isSorted_Strict(arr) ==
  \A index \in DOMAIN arr :
    \/ index = 1
    \/ indexOf(order, arr[index - 1].type) < indexOf(order, arr[index].type)

\* `(this.res || []).every((value, index, array) => !index || ...)`
isSorted(arr) ==
  \A index \in DOMAIN arr :
    \/ index = 1
    \/ indexOf(order, arr[index - 1].type) <= indexOf(order, arr[index].type)

\* the error throwErrorIfNotSorted throws on `this`, NoError when it returns
throwErrorIfNotSorted(this) ==
  IF ~isSorted(ResOrEmpty(this)) THEN NOT_SO_ERROR ELSE NoError

(* ---- outcome of a method call ---- *)
\* error: the message thrown, NoError on return; value: the object returned
\* (on a throw: the object at hand, which no one receives);
\* this: the receiver after the call; checked/scanned: whether the order
\* validation ran, and the array it scanned; str: the string returned.
Outcome(error, value, this, checked, scanned, str) ==
  [error |-> error, value |-> value, this |-> this,
   checked |-> checked, scanned |-> scanned, str |-> str]

\* mutant: `this.res.push(frag)`, the receiver's own array grows
appendAndCheck_Push(this, frag) ==
  LET res == [hasRes |-> TRUE, res |-> ResOrEmpty(this) \o <<frag>>]
      err == throwErrorIfNotSorted(res)
  IN Outcome(err, res, res, TRUE, res.res, "")

\* `const res = { ...this, res: [...this.res || [], frag] };
\*  res.throwErrorIfNotSorted(); return res;`
appendAndCheck(this, frag) ==
  LET res == [hasRes |-> TRUE, res |-> ResOrEmpty(this) \o <<frag>>]
      err == throwErrorIfNotSorted(res)
  IN Outcome(err, res, this, TRUE, res.res, "")

\* thrown before anything is built
throwTwice(this) == Outcome(TWICE_ERROR, this, this, FALSE, <<>>, "")

\* mutant: `this.res = [...]; return this`, the receiver itself is extended
element_AssignThis(this, value) ==
  IF this.hasRes /\ FilterLength(this.res, "element") # 0
  THEN throwTwice(this)
  ELSE LET res == [hasRes |-> TRUE, res |-> ResOrEmpty(this) \o <<Fragment("element", value)>>]
       IN Outcome(throwErrorIfNotSorted(res), res, res, TRUE, res.res, "")

\* mutant: the duplicate check is left out
element_NoDuplicateCheck(this, value) ==
  appendAndCheck(this, Fragment("element", value))

element(this, value) ==
  IF this.hasRes /\ FilterLength(this.res, "element") # 0
  THEN throwTwice(this)
  ELSE appendAndCheck(this, Fragment("element", value))

\* mutant: the duplicate check is left out
id_NoDuplicateCheck(this, value) ==
  appendAndCheck(this, Fragment("id", value))

\* mutant: the order is validated before the duplicate check
id_OrderFirst(this, value) ==
  LET out == appendAndCheck(this, Fragment("id", value))
  IN IF out.error # NoError THEN out
     ELSE IF this.hasRes /\ FilterLength(this.res, "id") # 0 THEN throwTwice(this)
     ELSE out

id(this, value) ==
  IF this.hasRes /\ FilterLength(this.res, "id") # 0
  THEN throwTwice(this)
  ELSE appendAndCheck(this, Fragment("id", value))

\* mutant: the fragment is given another type
class_WrongType(this, value) == appendAndCheck(this, Fragment("combinator", value))

class(this, value) == appendAndCheck(this, Fragment("class", value))

\* mutant: the fragment is put in front of the receiver's
attr_Prepend(this, value) ==
  LET res == [hasRes |-> TRUE, res |-> <<Fragment("attribute", value)>> \o ResOrEmpty(this)]
  IN Outcome(throwErrorIfNotSorted(res), res, this, TRUE, res.res, "")

attr(this, value) == appendAndCheck(this, Fragment("attribute", value))

pseudoClass(this, value) == appendAndCheck(this, Fragment("pseudo-class", value))

\* mutant: the duplicate check is left out
pseudoElement_NoDuplicateCheck(this, value) ==
  appendAndCheck(this, Fragment("pseudo-element", value))

\* mutant: only the last fragment is looked at for a duplicate
pseudoElement_LastOnly(this, value) ==
  IF this.hasRes /\ this.res # <<>> /\ this.res[Len(this.res)].type = "pseudo-element"
  THEN throwTwice(this)
  ELSE appendAndCheck(this, Fragment("pseudo-element", value))

pseudoElement(this, value) ==
  IF this.hasRes /\ FilterLength(this.res, "pseudo-element") # 0
  THEN throwTwice(this)
  ELSE appendAndCheck(this, Fragment("pseudo-element", value))

\* mutant: the receiver's fragments are spread in place of selector1's
combine_SpreadThis(this, selector1, combinator, selector2) ==
  Outcome(NoError,
          [hasRes |-> TRUE,
           res |-> ResOrEmpty(this) \o <<Fragment("combinator", combinator)>>
                   \o ResOrEmpty(selector2)],
          this, FALSE, <<>>, "")

\* mutant: the operands are spliced in the other order
combine_Swapped(this, selector1, combinator, selector2) ==
  Outcome(NoError,
          [hasRes |-> TRUE,
           res |-> ResOrEmpty(selector2) \o <<Fragment("combinator", combinator)>>
                   \o ResOrEmpty(selector1)],
          this, FALSE, <<>>, "")

\* mutant: with no selector1.res, selector2's fragments are returned as they are
combine_SkipEmptyLeft(this, selector1, combinator, selector2) ==
  IF selector1.hasRes
  THEN Outcome(NoError,
               [hasRes |-> TRUE,
                res |-> selector1.res \o <<Fragment("combinator", combinator)>>
                        \o ResOrEmpty(selector2)],
               this, FALSE, <<>>, "")
  ELSE Outcome(NoError, [hasRes |-> TRUE, res |-> ResOrEmpty(selector2)],
               this, FALSE, <<>>, "")

\* `{ ...this, res: [...selector1.res || [], {type:'combinator', value}, ...selector2.res || []] }`
combine(this, selector1, combinator, selector2) ==
  Outcome(NoError,
          [hasRes |-> TRUE,
           res |-> ResOrEmpty(selector1) \o <<Fragment("combinator", combinator)>>
                   \o ResOrEmpty(selector2)],
          this, FALSE, <<>>, "")

\* mutant: a pseudo-element is written with one colon
formatSelector_OneColon(obj) ==
  CASE obj.type = "id" -> "#" \o obj.value
    [] obj.type = "class" -> "." \o obj.value
    [] obj.type = "attribute" -> "[" \o obj.value \o "]"
    [] obj.type = "pseudo-class" -> ":" \o obj.value
    [] obj.type = "pseudo-element" -> ":" \o obj.value
    [] obj.type = "combinator" -> " " \o obj.value \o " "
    [] OTHER -> obj.value

\* the formatSelector table of stringify, `|| formatSelector.default`
formatSelector(obj) ==
  CASE obj.type = "id" -> "#" \o obj.value
    [] obj.type = "class" -> "." \o obj.value
    [] obj.type = "attribute" -> "[" \o obj.value \o "]"
    [] obj.type = "pseudo-class" -> ":" \o obj.value
    [] obj.type = "pseudo-element" -> "::" \o obj.value
    [] obj.type = "combinator" -> " " \o obj.value \o " "
    [] OTHER -> obj.value

\* `arr.reduce((accumutator, obj) => accumutator + format(obj), '')`
RECURSIVE reduce(_, _)
reduce(arr, accumutator) ==
  IF arr = <<>> THEN accumutator
  ELSE reduce(Tail(arr), accumutator \o formatSelector(Head(arr)))

stringify(this) ==
  Outcome(NoError, this, this, FALSE, <<>>, reduce(ResOrEmpty(this), ""))

(* ---- the client program ---- *)
AppendOps == {"element", "id", "class", "attr", "pseudoClass", "pseudoElement"}

\* the record of a call: op, the names of the receiver `this`, of the variable
\* the result is assigned to and of combine's operands, the argument, the heap
\* before the call, and the outcome
Call(op, this, target, value, selector1, selector2, out) ==
  [op |-> op, this |-> this, target |-> target, value |-> value,
   selector1 |-> selector1, selector2 |-> selector2,
   before |-> heap, out |-> out]

NoCall ==
  [op |-> "none", this |-> "facade", target |-> "s", value |-> "",
   selector1 |-> "facade", selector2 |-> "facade",
   before |-> [o \in Objs |-> cssSelectorBuilder],
   out |-> Outcome(NoError, cssSelectorBuilder, cssSelectorBuilder, FALSE, <<>>, "")]

\* `const builder = cssSelectorBuilder;` and the client's variables, which start
\* out referring to the facade
Init ==
  /\ heap = [o \in Objs |-> cssSelectorBuilder]
  /\ pc = "idle"
  /\ last = NoCall
  /\ chain = [o \in Objs |-> TRUE]

\* fragments the client's variables hold once `target` holds `value`
Held(target, value) ==
  Len(value.res) + Len(heap[CHOOSE o \in Slots : o # target].res)

\* the method runs on heap[this]; whatever it does to its receiver is done
Invoke(op, this, target, value, selector1, selector2, out) ==
  /\ pc = "idle"
  /\ (out.error = NoError /\ op # "stringify") => Held(target, out.value) <= MaxLen
  /\ heap' = [heap EXCEPT ![this] = out.this]
  /\ last' = Call(op, this, target, value, selector1, selector2, out)
  /\ pc' = "called"
  /\ UNCHANGED chain

Element(this, target, value) ==
  Invoke("element", this, target, value, "facade", "facade", element(heap[this], value))

Id(this, target, value) ==
  Invoke("id", this, target, value, "facade", "facade", id(heap[this], value))

Class(this, target, value) ==
  Invoke("class", this, target, value, "facade", "facade", class(heap[this], value))

Attr(this, target, value) ==
  Invoke("attr", this, target, value, "facade", "facade", attr(heap[this], value))

PseudoClass(this, target, value) ==
  Invoke("pseudoClass", this, target, value, "facade", "facade", pseudoClass(heap[this], value))

PseudoElement(this, target, value) ==
  Invoke("pseudoElement", this, target, value, "facade", "facade", pseudoElement(heap[this], value))

Combine(this, target, selector1, combinator, selector2) ==
  Invoke("combine", this, target, combinator, selector1, selector2,
         combine(heap[this], heap[selector1], combinator, heap[selector2]))

Stringify(this) ==
  Invoke("stringify", this, "s", "", "facade", "facade", stringify(heap[this]))

\* the statement completes: `target` is assigned the object returned; a throw
\* assigns nothing, and the string of stringify is no object
Return ==
  /\ pc = "called"
  /\ IF last.out.error = NoError /\ last.op # "stringify"
     THEN /\ heap' = [heap EXCEPT ![last.target] = last.out.value]
          /\ chain' = [chain EXCEPT ![last.target] = last.op \in AppendOps /\ chain[last.this]]
     ELSE UNCHANGED <<heap, chain>>
  /\ last' = NoCall
  /\ pc' = "idle"

Next ==
  \/ \E this \in Objs, target \in Slots, value \in Texts : Element(this, target, value)
  \/ \E this \in Objs, target \in Slots, value \in Texts : Id(this, target, value)
  \/ \E this \in Objs, target \in Slots, value \in Texts : Class(this, target, value)
  \/ \E this \in Objs, target \in Slots, value \in Texts : Attr(this, target, value)
  \/ \E this \in Objs, target \in Slots, value \in Texts : PseudoClass(this, target, value)
  \/ \E this \in Objs, target \in Slots, value \in Texts : PseudoElement(this, target, value)
  \/ \E this \in Objs, target \in Slots, selector1 \in Objs, selector2 \in Objs,
        combinator \in Combinators : Combine(this, target, selector1, combinator, selector2)
  \/ \E this \in Objs : Stringify(this)
  \/ Return

Spec == Init /\ [][Next]_vars

(* ---- vocabulary of the claims ---- *)
\* the kind of fragment an append operation is documented to append
KindOf(op) ==
  CASE op = "element" -> "element"
    [] op = "id" -> "id"
    [] op = "class" -> "class"
    [] op = "attr" -> "attribute"
    [] op = "pseudoClass" -> "pseudo-class"
    [] op = "pseudoElement" -> "pseudo-element"

SingletonOps == {"element", "id", "pseudoElement"}
SingletonKinds == {"element", "id", "pseudo-element"}

\* the rank of a kind; a combinator has none
Rank(kind) ==
  CASE kind = "element" -> 0
    [] kind = "id" -> 1
    [] kind = "class" -> 2
    [] kind = "attribute" -> 3
    [] kind = "pseudo-class" -> 4
    [] kind = "pseudo-element" -> 5

Occurrences(arr, kind) == Cardinality({i \in 1..Len(arr) : arr[i].type = kind})
HasCombinator(arr) == Occurrences(arr, "combinator") > 0
AtMostOneOfEach(arr) == \A kind \in SingletonKinds : Occurrences(arr, kind) <= 1
NonDecreasing(arr) ==
  \A i \in 1..(Len(arr) - 1) : Rank(arr[i].type) <= Rank(arr[i + 1].type)
\* a compound selector: element? id? class* attribute* pseudo-class* pseudo-element?
ValidCompound(arr) ==
  ~HasCombinator(arr) /\ AtMostOneOfEach(arr) /\ NonDecreasing(arr)

\* a method has just run; an append operation has; the fragments its receiver had
Called == pc = "called"
Appended == Called /\ last.op \in AppendOps
Receiver == ResOrEmpty(last.before[last.this])
Succeeded == last.out.error = NoError

\* C1: every selector built from the facade by successful append operations only
\* has at most one element, one id and one pseudo-element fragment and its kinds
\* in non-decreasing rank order; no append operation returns one that has not.
C1_AppendChainsValid ==
  /\ \A o \in Objs : chain[o] => ValidCompound(ResOrEmpty(heap[o]))
  /\ (Appended /\ chain[last.this] /\ Succeeded) => ValidCompound(last.out.value.res)

C1_Witness ==
  \E o \in Slots :
    /\ chain[o]
    /\ Len(heap[o].res) = 3
    /\ heap[o].res[1].type = "element"
    /\ heap[o].res[2].type = "id"

\* C2, as stated: every selector any sequence of operations produces, those of
\* combine included, has at most one element, one id and one pseudo-element.
C2_Original ==
  /\ \A o \in Objs : AtMostOneOfEach(ResOrEmpty(heap[o]))
  /\ (Called /\ Succeeded) => AtMostOneOfEach(ResOrEmpty(last.out.value))

\* C2, amended: every selector an append operation returns, whatever its
\* receiver, has at most one element, one id and one pseudo-element; the selector
\* combine returns has as many of each as its two operands together.
C2_Amended ==
  /\ (Appended /\ Succeeded) => AtMostOneOfEach(last.out.value.res)
  /\ (Called /\ last.op = "combine") =>
       \A kind \in SingletonKinds :
         Occurrences(last.out.value.res, kind)
           = Occurrences(ResOrEmpty(last.before[last.selector1]), kind)
             + Occurrences(ResOrEmpty(last.before[last.selector2]), kind)

\* an append operation has succeeded on a receiver that combine produced
C2_Witness ==
  Appended /\ Succeeded /\ HasCombinator(Receiver) /\ last.op \in SingletonOps

\* C3: element, id and pseudoElement fail with the duplicate error on a receiver
\* that holds a fragment of that kind anywhere (the throw is the whole outcome:
\* nothing is returned); class, attr and pseudoClass never fail with the
\* duplicate error.
C3_DuplicateError ==
  /\ (Appended /\ last.op \in SingletonOps /\ Occurrences(Receiver, KindOf(last.op)) > 0)
       => last.out.error = TWICE_ERROR
  /\ (Appended /\ last.op \notin SingletonOps) => last.out.error # TWICE_ERROR

\* the duplicated fragment is not the receiver's last one
C3_Witness ==
  /\ Appended /\ last.op = "pseudoElement"
  /\ Len(Receiver) >= 2
  /\ Receiver[1].type = "pseudo-element"
  /\ Receiver[Len(Receiver)].type # "pseudo-element"
  /\ last.out.error = TWICE_ERROR

\* the appended kind's rank is lower than that of the receiver's last fragment
LowerThanPreceding(arr, kind) ==
  /\ arr # <<>>
  /\ arr[Len(arr)].type # "combinator"
  /\ Rank(kind) < Rank(arr[Len(arr)].type)

\* C4: an append operation that does not fail with the duplicate error fails with
\* the order error exactly when the rank of the appended kind is lower than the
\* rank of the receiver's last fragment.
C4_OrderErrorIffLowerRank ==
  (Appended /\ last.out.error # TWICE_ERROR) =>
    (last.out.error = NOT_SO_ERROR <=> LowerThanPreceding(Receiver, KindOf(last.op)))

\* C5: an append operation that would both duplicate a singleton kind and break
\* the rank order fails with the duplicate error, not the order error.
C5_DuplicateBeforeOrder ==
  (/\ Appended
   /\ last.op \in SingletonOps
   /\ Occurrences(Receiver, KindOf(last.op)) > 0
   /\ LowerThanPreceding(Receiver, KindOf(last.op)))
    => (last.out.error = TWICE_ERROR /\ last.out.error # NOT_SO_ERROR)

\* id, class, id
C5_Witness ==
  /\ Appended /\ last.op = "id"
  /\ Len(Receiver) = 2
  /\ Receiver[1].type = "id"
  /\ Receiver[2].type = "class"
  /\ last.out.error = TWICE_ERROR

\* C6: an append operation, whether it succeeds or fails, changes the fragments
\* of no existing object, its receiver included, nor what they stringify to.
C6_AppendChangesNothing ==
  Appended =>
    \A o \in Objs :
      /\ heap[o] = last.before[o]
      /\ stringify(heap[o]).str = stringify(last.before[o]).str

\* `t = s.class(...)` with s not empty: t will differ from s
C6_Witness ==
  /\ Appended /\ Succeeded
  /\ last.this = "s" /\ last.target = "t"
  /\ Receiver # <<>>
  /\ last.out.value # heap["s"]

\* the failing case: an append operation has thrown on a receiver that is not empty
C6_WitnessFailed ==
  Appended /\ ~Succeeded /\ last.this = "s" /\ Receiver # <<>>

\* C7: combine never fails; it returns selector1's fragments, one combinator
\* fragment carrying the token verbatim, then selector2's fragments, whatever
\* its receiver holds, validates nothing and changes no existing object.
C7_CombineSplices ==
  (Called /\ last.op = "combine") =>
    /\ Succeeded
    /\ last.out.value.res
         = ResOrEmpty(last.before[last.selector1])
           \o <<[type |-> "combinator", value |-> last.value]>>
           \o ResOrEmpty(last.before[last.selector2])
    /\ ~last.out.checked
    /\ heap = last.before

\* the receiver holds fragments and is neither operand, the token is no CSS
\* combinator, and the result is one the order validation would have rejected
C7_Witness ==
  /\ Called /\ last.op = "combine"
  /\ Receiver # <<>>
  /\ last.this \notin {last.selector1, last.selector2}
  /\ last.value = "a"
  /\ ResOrEmpty(last.before[last.selector1]) # <<>>
  /\ ~isSorted(last.out.value.res)

\* how the specification renders one fragment
Prefix(kind) ==
  CASE kind = "element" -> ""
    [] kind = "id" -> "#"
    [] kind = "class" -> "."
    [] kind = "attribute" -> "["
    [] kind = "pseudo-class" -> ":"
    [] kind = "pseudo-element" -> "::"
    [] kind = "combinator" -> " "
Suffix(kind) ==
  CASE kind = "attribute" -> "]"
    [] kind = "combinator" -> " "
    [] OTHER -> ""
Rendering(fragment) == Prefix(fragment.type) \o fragment.value \o Suffix(fragment.type)
RECURSIVE Concatenation(_)
Concatenation(arr) ==
  IF Len(arr) = 0 THEN ""
  ELSE Concatenation(SubSeq(arr, 1, Len(arr) - 1)) \o Rendering(arr[Len(arr)])

\* the documented chains `#main.container.editable` and `a[href$=".png"]:focus`
DocChain1 ==
  stringify(class(class(id(cssSelectorBuilder, "main").value,
                        "container").value, "editable").value).str
DocChain2 ==
  stringify(pseudoClass(attr(element(cssSelectorBuilder, "a").value,
                             "href$=\".png\"").value, "focus").value).str

\* C8: stringify returns the concatenation, left to right, of its fragments'
\* renderings, and the empty string for the empty selector.
C8_StringifyConcatenates ==
  /\ (Called /\ last.op = "stringify") =>
       /\ last.out.str = Concatenation(Receiver)
       /\ Receiver = <<>> => last.out.str = ""
  /\ DocChain1 = "#main.container.editable"
  /\ DocChain2 = "a[href$=\".png\"]:focus"

C8_Witness ==
  /\ Called /\ last.op = "stringify"
  /\ Len(Receiver) = 3
  /\ HasCombinator(Receiver)
  /\ Receiver[3].type = "pseudo-element"

\* the documented nested combine
DocCombine ==
  LET b == cssSelectorBuilder
      div == class(class(id(element(b, "div").value, "main").value,
                         "container").value, "draggable").value
      table == id(element(b, "table").value, "data").value
      tr == pseudoClass(element(b, "tr").value, "nth-of-type(even)").value
      td == pseudoClass(element(b, "td").value, "nth-of-type(even)").value
  IN stringify(combine(b, div, "+",
                       combine(b, table, "~",
                               combine(b, tr, " ", td).value).value).value).str

\* C9: stringify(combine(A, c, B)) is stringify(A), a space, c, a space and
\* stringify(B).
C9_StringifyOfCombine ==
  /\ (Called /\ last.op = "combine") =>
       stringify(last.out.value).str
         = stringify(last.before[last.selector1]).str
           \o " " \o last.value \o " "
           \o stringify(last.before[last.selector2]).str
  /\ DocCombine
       = "div#main.container.draggable + table#data ~ tr:nth-of-type(even)   td:nth-of-type(even)"

\* the space combinator between two elements: three spaces
C9_Witness ==
  /\ Called /\ last.op = "combine" /\ last.value = " "
  /\ stringify(last.out.value).str = "a   a"

\* C10, as stated: the order validation never scans a sequence that holds a
\* combinator fragment.
C10_Original ==
  (Called /\ last.out.checked) => ~HasCombinator(last.out.scanned)

\* C10, amended: the sequence the order validation scans holds a combinator
\* fragment exactly when the receiver of the append operation holds one, which a
\* selector built from the facade by append operations only never does.
C10_Amended ==
  (Appended /\ last.out.checked) =>
    /\ HasCombinator(last.out.scanned) <=> HasCombinator(Receiver)
    /\ chain[last.this] => ~HasCombinator(last.out.scanned)

C10_Witness ==
  Appended /\ last.out.checked /\ HasCombinator(last.out.scanned) /\ Succeeded

\* two adjacent fragments, neither a combinator, whose ranks decrease
RankViolation(arr) ==
  \E i \in 1..(Len(arr) - 1) :
    /\ arr[i].type # "combinator"
    /\ arr[i + 1].type # "combinator"
    /\ Rank(arr[i].type) > Rank(arr[i + 1].type)

\* C11: combinator fragments are exempt from rank checking: an append operation
\* fails with the order error only over two adjacent fragments neither of which
\* is a combinator.
C11_CombinatorsExempt ==
  (Appended /\ last.out.error = NOT_SO_ERROR) => RankViolation(last.out.scanned)

\* C12: a successful append operation of kind k with text t returns the
\* receiver's fragments followed by the one fragment (k, t): one fragment more,
\* the prefix kept in order, no combinator added.
C12_AppendsOneFragment ==
  (Appended /\ Succeeded) =>
    /\ last.out.value.res
         = Receiver \o <<[type |-> KindOf(last.op), value |-> last.value]>>
    /\ Len(last.out.value.res) = Len(Receiver) + 1
    /\ SubSeq(last.out.value.res, 1, Len(Receiver)) = Receiver
    /\ Occurrences(last.out.value.res, "combinator") = Occurrences(Receiver, "combinator")

\* attr on a receiver of two fragments, one of them a combinator
C12_Witness ==
  /\ Appended /\ Succeeded /\ last.op = "attr"
  /\ Len(Receiver) = 2
  /\ HasCombinator(Receiver)

\* C13: the facade always is the empty selector: whatever has been called on it
\* or on selectors derived from it, it has no fragments, stringifies to '', and
\* a chain started from it begins anew.
C13_FacadeStaysEmpty ==
  /\ heap["facade"] = cssSelectorBuilder
  /\ ResOrEmpty(heap["facade"]) = <<>>
  /\ stringify(heap["facade"]).str = ""
  /\ (Called /\ last.op = "stringify" /\ last.this = "facade") => last.out.str = ""
  /\ (Appended /\ last.this = "facade") =>
       /\ Succeeded
       /\ last.out.value.res = <<[type |-> KindOf(last.op), value |-> last.value]>>

\* a chain is started from the facade after chains and a combine were built on it
C13_Witness ==
  /\ Appended /\ last.this = "facade"
  /\ heap["s"].res # <<>>
  /\ HasCombinator(heap["t"].res)

\* C14: on a selector built from the facade by append operations only, an append
\* operation succeeds exactly when the kinds stay in non-decreasing rank order
\* with element, id and pseudo-element at most once: the chains accepted are
\* element? id? class* attribute* pseudo-class* pseudo-element?.
C14_AcceptsExactlyTheGrammar ==
  (Appended /\ chain[last.this]) =>
    (Succeeded <=>
       ValidCompound(Receiver \o <<[type |-> KindOf(last.op), value |-> last.value]>>))

\* a kind that may repeat is appended after itself
C14_Witness ==
  /\ Appended /\ chain[last.this] /\ Succeeded
  /\ Len(Receiver) = 2
  /\ Receiver[2].type = KindOf(last.op)
  /\ Receiver[1].type = "id"

\* arr is combine(A, c, B) for an A that is not empty: a combinator past index 1
CombinatorAfterAny(arr) ==
  \E k \in 2..Len(arr) : arr[k].type = "combinator"

\* a combinator follows a fragment that is no combinator
CombinatorAfterFragment(arr) ==
  \E k \in 2..Len(arr) : arr[k].type = "combinator" /\ arr[k - 1].type # "combinator"

\* the error the claim expects of an append operation that cannot extend
ErrorOfNoExtension ==
  IF last.op \in SingletonOps /\ Occurrences(Receiver, KindOf(last.op)) > 0
  THEN TWICE_ERROR
  ELSE NOT_SO_ERROR

\* C15, as stated: every append operation on a selector combine(A, c, B) with A
\* not empty fails, with the duplicate error if the kind is a singleton already
\* present, with the order error otherwise.
C15_Original ==
  (Appended /\ CombinatorAfterAny(Receiver)) => last.out.error = ErrorOfNoExtension

\* C15, amended: every append operation on a selector in which a combinator
\* follows a non-combinator fragment (combine(A, c, B) with A holding a fragment
\* that is no combinator) fails, with the duplicate error if the kind is a
\* singleton already present, with the order error otherwise.
C15_Amended ==
  (Appended /\ CombinatorAfterFragment(Receiver)) => last.out.error = ErrorOfNoExtension

\* class on combine(element, c, element): in rank order after the last fragment
C15_Witness ==
  /\ Appended /\ last.op = "class"
  /\ Len(Receiver) = 3
  /\ Receiver[1].type = "element"
  /\ Receiver[2].type = "combinator"
  /\ Receiver[3].type = "element"
  /\ last.out.error = NOT_SO_ERROR

\* no combinator from index i to index j
SameCompound(arr, i, j) == \A k \in i..j : arr[k].type # "combinator"

\* every maximal run of non-combinator fragments is in non-decreasing rank order
\* and holds at most one element, one id and one pseudo-element
CompoundsValid(arr) ==
  /\ ~RankViolation(arr)
  /\ \A i, j \in 1..Len(arr) :
       (i < j /\ arr[i].type \in SingletonKinds /\ arr[i].type = arr[j].type)
         => ~SameCompound(arr, i, j)

\* C16: in every selector that append and combine operations produce, each
\* compound selector between combinators is in non-decreasing rank order with at
\* most one element, one id and one pseudo-element.
C16_CompoundsValid ==
  /\ \A o \in Objs : CompoundsValid(ResOrEmpty(heap[o]))
  /\ (Called /\ Succeeded) => CompoundsValid(ResOrEmpty(last.out.value))

\* an append operation has extended the second of two compounds
C16_Witness ==
  \E o \in Slots :
    /\ Len(heap[o].res) = 3
    /\ heap[o].res[1].type = "combinator"
    /\ heap[o].res[2].type = "combinator"
    /\ heap[o].res[3].type = "pseudo-element"

(* ---- associativity of combine ---- *)
(* The client holds three selectors A, B and D and nests two combine calls  *)
(* both ways, as the documented example nests them.                        *)
Operands == {"A", "B", "D"}

\* every fragment the operations make of the client's texts and tokens
Fragments ==
  {Fragment(KindOf(op), value) : op \in AppendOps, value \in Texts}
    \cup {Fragment("combinator", combinator) : combinator \in Combinators}

\* the selectors of n fragments the operations produce: the facade, and the
\* arrays whose compounds are valid (compounds are built by append operations,
\* and joined by combine)
Producible(n) ==
  IF n = 0 THEN {cssSelectorBuilder}
  ELSE {[hasRes |-> TRUE, res |-> arr] :
          arr \in {a \in [1..n -> Fragments] : CompoundsValid(a)}}

InitAssoc ==
  /\ \E la \in 0..MaxLen : \E lb \in 0..(MaxLen - la) : \E ld \in 0..(MaxLen - la - lb) :
       \E a \in Producible(la), b \in Producible(lb), d \in Producible(ld) :
         heap = [o \in Operands |-> CASE o = "A" -> a [] o = "B" -> b [] OTHER -> d]
  /\ pc = "idle"
  /\ last = NoCall
  /\ chain = [o \in Operands |-> FALSE]

\* `left = builder.combine(builder.combine(A, c1, B), c2, D);
\*  right = builder.combine(A, c1, builder.combine(B, c2, D));`
Nest(c1, c2) ==
  /\ pc = "idle"
  /\ last' = [op |-> "nest", c1 |-> c1, c2 |-> c2,
              left |-> combine(cssSelectorBuilder,
                               combine(cssSelectorBuilder, heap["A"], c1, heap["B"]).value,
                               c2, heap["D"]).value,
              right |-> combine(cssSelectorBuilder, heap["A"], c1,
                                combine(cssSelectorBuilder, heap["B"], c2, heap["D"]).value).value]
  /\ pc' = "called"
  /\ UNCHANGED <<heap, chain>>

NextAssoc == \E c1 \in Combinators, c2 \in Combinators : Nest(c1, c2)

SpecAssoc == InitAssoc /\ [][NextAssoc]_vars

\* C17: combine is associative: combine(combine(A, c1, B), c2, D) and
\* combine(A, c1, combine(B, c2, D)) have the same fragments, and so stringify
\* to the same string.
C17_CombineAssociative ==
  (pc = "called" /\ last.op = "nest") =>
    /\ last.left.res = last.right.res
    /\ stringify(last.left).str = stringify(last.right).str

\* three selectors that hold fragments, two different tokens
C17_Witness ==
  /\ pc = "called" /\ last.op = "nest"
  /\ \A o \in Operands : ResOrEmpty(heap[o]) # <<>>
  /\ last.c1 # last.c2
  /\ Len(last.left.res) = 5

====
